---- MODULE Spec2Model ----
(***************************************************************************)
(* Model of fetch_anilist_to_sqlite.py: the page walk of main(), the page  *)
(* fetcher, the record mapping and the SQLite upsert.                      *)
(*                                                                         *)
(* JSON values are tagged records, so that null, numbers, strings, lists   *)
(* and objects can live in one collection.  A string is a sequence of      *)
(* one-character strings.                                                  *)
(***************************************************************************)
EXTENDS Integers, Sequences, FiniteSets, TLC

\* ------------------------------------------------------------------ bounds
MaxPagesArg == 2      \* largest value of --pages that is explored
MaxItems == 2         \* longest media list of a page
MaxRetries == 2       \* most HTTP errors answered for one page

\* ------------------------------------------------------------ JSON values
Null == [t |-> "null"]
JBool(b) == [t |-> "bool", v |-> b]
JInt(n) == [t |-> "int", v |-> n]
JStr(s) == [t |-> "str", v |-> s]
JList(l) == [t |-> "list", v |-> l]
JObj(f) == [t |-> "obj", v |-> f]
EmptyObj == [t |-> "obj", v |-> <<>>]

\* table anime without rows
EmptyStore == <<>>

\* Python truth value of a JSON value (what `x or y` and `if x` test)
Truthy(x) ==
    CASE x.t = "null" -> FALSE
      [] x.t = "bool" -> x.v
      [] x.t = "int"  -> x.v # 0
      [] x.t = "str"  -> Len(x.v) > 0
      [] x.t = "list" -> Len(x.v) > 0
      [] x.t = "obj"  -> DOMAIN x.v # {}

\* x or y
Or(x, y) == IF Truthy(x) THEN x ELSE y

\* dict.get(k, default); only a dict has .get
HasGet(x) == x.t = "obj"
GetOr(o, k, d) == IF k \in DOMAIN o.v THEN o.v[k] ELSE d
Get(o, k) == GetOr(o, k, Null)

\* ------------------------------------------------------ clean_description
\* Strings are sequences of one-character strings.
IsSpace(c) == c \in {" ", "\t", "\n"}

RECURSIVE SkipSpace(_, _)
\* first index >= j of s that holds no whitespace (Len(s)+1 when there is none)
SkipSpace(s, j) ==
    IF j <= Len(s) /\ IsSpace(s[j]) THEN SkipSpace(s, j + 1) ELSE j

\* last index of the match of <br\s*/?> (ignoring case) that starts at i, 0 if none
br_end(s, i) ==
    IF i + 2 <= Len(s) /\ s[i] = "<" /\ s[i+1] \in {"b", "B"} /\ s[i+2] \in {"r", "R"}
    THEN LET j == SkipSpace(s, i + 3)
         IN  IF j <= Len(s) /\ s[j] = ">" THEN j
             ELSE IF j + 1 <= Len(s) /\ s[j] = "/" /\ s[j+1] = ">" THEN j + 1
             ELSE 0
    ELSE 0

RECURSIVE sub_br(_, _)
\* re.sub(r"<br\s*/?>", "\n", text, flags=re.IGNORECASE), from index i on
sub_br(s, i) ==
    IF i > Len(s) THEN <<>>
    ELSE LET e == br_end(s, i)
         IN  IF e > 0 THEN <<"\n">> \o sub_br(s, e + 1)
             ELSE <<s[i]>> \o sub_br(s, i + 1)

RECURSIVE NextGt(_, _)
\* first index >= j of s that holds ">", 0 if none
NextGt(s, j) ==
    IF j > Len(s) THEN 0 ELSE IF s[j] = ">" THEN j ELSE NextGt(s, j + 1)

\* last index of the match of <[^>]+> that starts at i, 0 if none
tag_end(s, i) ==
    IF s[i] = "<"
    THEN LET j == NextGt(s, i + 1) IN IF j >= i + 2 THEN j ELSE 0
    ELSE 0

RECURSIVE sub_tags(_, _)
\* re.sub(r"<[^>]+>", "", text), from index i on
sub_tags(s, i) ==
    IF i > Len(s) THEN <<>>
    ELSE LET e == tag_end(s, i)
         IN  IF e > 0 THEN sub_tags(s, e + 1)
             ELSE <<s[i]>> \o sub_tags(s, i + 1)

StartsAt(s, i, pat) ==
    i + Len(pat) - 1 <= Len(s) /\ SubSeq(s, i, i + Len(pat) - 1) = pat

RECURSIVE replace_from(_, _, _, _)
replace_from(s, i, pat, rep) ==
    IF i > Len(s) THEN <<>>
    ELSE IF StartsAt(s, i, pat) THEN rep \o replace_from(s, i + Len(pat), pat, rep)
    ELSE <<s[i]>> \o replace_from(s, i + 1, pat, rep)

\* str.replace(pat, rep): every occurrence, left to right, not overlapping
replace(s, pat, rep) == replace_from(s, 1, pat, rep)

Amp == <<"&", "a", "m", "p", ";">>
Lt == <<"&", "l", "t", ";">>
Gt == <<"&", "g", "t", ";">>
Quot == <<"&", "q", "u", "o", "t", ";">>
Apos == <<"&", "#", "3", "9", ";">>

\* the chain of five replace calls, in the order of the source
decode_entities(s) ==
    replace(replace(replace(replace(replace(s, Amp, <<"&">>), Lt, <<"<">>),
                            Gt, <<">">>), Quot, <<"\"">>), Apos, <<"'">>)

RECURSIVE LastNl(_, _, _)
\* largest index in lo..hi of s that holds a newline, 0 if none
LastNl(s, lo, hi) ==
    IF hi < lo THEN 0 ELSE IF s[hi] = "\n" THEN hi ELSE LastNl(s, lo, hi - 1)

RECURSIVE FirstNl(_, _, _)
\* smallest index in lo..hi of s that holds a newline, 0 if none
FirstNl(s, lo, hi) ==
    IF lo > hi THEN 0 ELSE IF s[lo] = "\n" THEN lo ELSE FirstNl(s, lo + 1, hi)

RECURSIVE sub_ws_nl_lazy(_, _)
\* re.sub(r"\s+?\n", "\n", text): a match that ends at the first newline it can
sub_ws_nl_lazy(s, i) ==
    IF i > Len(s) THEN <<>>
    ELSE IF IsSpace(s[i])
    THEN LET e == SkipSpace(s, i) - 1
             n == FirstNl(s, i + 1, e)
         IN  IF n > 0 THEN <<"\n">> \o sub_ws_nl_lazy(s, n + 1)
             ELSE <<s[i]>> \o sub_ws_nl_lazy(s, i + 1)
    ELSE <<s[i]>> \o sub_ws_nl_lazy(s, i + 1)

RECURSIVE sub_ws_nl(_, _)
\* re.sub(r"\s+\n", "\n", text), from index i on: \s+ is greedy and gives back
\* down to the last newline of the whitespace run
sub_ws_nl(s, i) ==
    IF i > Len(s) THEN <<>>
    ELSE IF IsSpace(s[i])
    THEN LET e == SkipSpace(s, i) - 1
             n == LastNl(s, i + 1, e)
         IN  IF n > 0 THEN <<"\n">> \o sub_ws_nl(s, n + 1)
             ELSE <<s[i]>> \o sub_ws_nl(s, i + 1)
    ELSE <<s[i]>> \o sub_ws_nl(s, i + 1)

RECURSIVE NlRunEnd(_, _)
\* last index of the run of newlines that starts at i
NlRunEnd(s, i) ==
    IF i + 1 <= Len(s) /\ s[i+1] = "\n" THEN NlRunEnd(s, i + 1) ELSE i

RECURSIVE sub_nl3(_, _)
\* re.sub(r"\n{3,}", "\n\n", text), from index i on
sub_nl3(s, i) ==
    IF i > Len(s) THEN <<>>
    ELSE IF s[i] = "\n" /\ NlRunEnd(s, i) - i + 1 >= 3
    THEN <<"\n", "\n">> \o sub_nl3(s, NlRunEnd(s, i) + 1)
    ELSE <<s[i]>> \o sub_nl3(s, i + 1)

RECURSIVE lstrip(_)
lstrip(s) == IF Len(s) > 0 /\ IsSpace(s[1]) THEN lstrip(Tail(s)) ELSE s

RECURSIVE rstrip(_)
rstrip(s) ==
    IF Len(s) > 0 /\ IsSpace(s[Len(s)]) THEN rstrip(SubSeq(s, 1, Len(s) - 1)) ELSE s

\* str.lstrip(): whitespace at the end stays
strip_left(s) == lstrip(s)

\* str.strip()
strip(s) == rstrip(lstrip(s))

clean_description(text) ==
    IF Len(text) = 0 THEN <<>>
    ELSE strip(sub_nl3(sub_ws_nl(decode_entities(sub_tags(sub_br(text, 1), 1)), 1), 1))

\* --------------------------------------------------------------- json.dumps
\* a string between double quotes, with " and \ escaped (ensure_ascii=False)
RECURSIVE dumps_chars(_)
dumps_chars(s) ==
    IF Len(s) = 0 THEN <<>>
    ELSE (IF s[1] \in {"\"", "\\"} THEN <<"\\", s[1]>> ELSE <<s[1]>>) \o dumps_chars(Tail(s))

dumps_value(x) ==
    CASE x.t = "str"  -> <<"\"">> \o dumps_chars(x.v) \o <<"\"">>
      [] x.t = "null" -> <<"n", "u", "l", "l">>
      [] x.t = "bool" -> IF x.v THEN <<"t", "r", "u", "e">> ELSE <<"f", "a", "l", "s", "e">>

RECURSIVE dumps_items(_)
dumps_items(l) ==
    IF Len(l) = 0 THEN <<>>
    ELSE IF Len(l) = 1 THEN dumps_value(l[1])
    ELSE dumps_value(l[1]) \o <<",", " ">> \o dumps_items(Tail(l))

\* json.dumps(list, ensure_ascii=False): the text stored in a list-valued column
json_dumps(x) == JStr(<<"[">> \o dumps_items(x.v) \o <<"]">>)

\* ------------------------------------------------------------ the mapping
\* a comprehension that ends at the first element it does not keep
names_of_until(nodes) ==
    LET n == Len(nodes.v)
        stop == CHOOSE i \in 1..(n + 1) :
                    /\ i = n + 1 \/ ~(Truthy(nodes.v[i]) /\ Truthy(Get(nodes.v[i], "name")))
                    /\ \A j \in 1..(i - 1) :
                           Truthy(nodes.v[j]) /\ Truthy(Get(nodes.v[j], "name"))
    IN  JList([i \in 1..(stop - 1) |-> Get(nodes.v[i], "name")])

\* [e.get("name") for e in nodes if e and e.get("name")]
names_of(nodes) ==
    LET keep == SelectSeq(nodes.v, LAMBDA e : Truthy(e) /\ Truthy(Get(e, "name")))
    IN  JList([i \in 1..Len(keep) |-> Get(keep[i], "name")])

\* the row built from one media item by lines 129-143
map_row(m) ==
    LET studios_nodes == Or(Get(Or(Get(m, "studios"), EmptyObj), "nodes"), JList(<<>>))
        studio_names == names_of(studios_nodes)
        tags_nodes == Or(Get(m, "tags"), JList(<<>>))
        tag_names == names_of(tags_nodes)
        title == Or(Get(m, "title"), EmptyObj)
        description == Or(Get(m, "description"), JStr(<<>>))
    IN  [id |-> Get(m, "id"),
         title_romaji |-> Get(title, "romaji"),
         title_english |-> Get(title, "english"),
         description |-> JStr(clean_description(description.v)),
         genres |-> json_dumps(Or(Get(m, "genres"), JList(<<>>))),
         tags |-> json_dumps(tag_names),
         average_score |-> Get(m, "averageScore"),
         studios |-> json_dumps(studio_names)]

\* an item on which lines 129-143 raise: .get is called on something that is no dict
map_raises(m) ==
    IF ~HasGet(m) THEN TRUE
    ELSE IF ~HasGet(Or(Get(m, "studios"), EmptyObj)) THEN TRUE
    ELSE IF ~HasGet(Or(Get(m, "title"), EmptyObj)) THEN TRUE
    ELSE \E e \in {Or(Get(m, "tags"), JList(<<>>)),
                   Or(Get(Or(Get(m, "studios"), EmptyObj), "nodes"), JList(<<>>))} :
            IF e.t # "list" THEN TRUE
            ELSE \E i \in 1..Len(e.v) : Truthy(e.v[i]) /\ ~HasGet(e.v[i])

\* a loop that ends at the first item without an id instead of passing over it
RECURSIVE map_items_breaks(_)
map_items_breaks(media) ==
    IF Len(media) = 0 THEN <<>>
    ELSE LET row == map_row(media[1])
         IN  IF row.id # Null THEN <<row>> \o map_items_breaks(Tail(media)) ELSE <<>>

\* the loop of lines 127-146 over the items of media: the rows with an id, in order
RECURSIVE map_items(_)
map_items(media) ==
    IF Len(media) = 0 THEN <<>>
    ELSE LET row == map_row(media[1])
         IN  (IF row.id # Null THEN <<row>> ELSE <<>>) \o map_items(Tail(media))

\* payload.get("media", [])
media_of(p) == GetOr(p, "media", JList(<<>>))

\* lines 126-146 raise: payload is no dict, media cannot be iterated, or an item raises
mapping_raises(p) ==
    IF ~HasGet(p) THEN TRUE
    ELSE IF media_of(p).t # "list" THEN TRUE
    ELSE \E i \in 1..Len(media_of(p).v) : map_raises(media_of(p).v[i])

\* ---------------------------------------------------------------- the store
\* an upsert whose DO UPDATE SET list lacks title_english and average_score
upsert_row_partial(st, r) ==
    LET k == r.id.v
    IN  IF k \in DOMAIN st
        THEN [st EXCEPT ![k] = [@ EXCEPT !.title_romaji = r.title_romaji,
                                         !.description = r.description,
                                         !.genres = r.genres,
                                         !.tags = r.tags,
                                         !.studios = r.studios]]
        ELSE [i \in DOMAIN st \cup {k} |-> IF i = k THEN r ELSE st[i]]

\* one row of INSERT ... ON CONFLICT(id) DO UPDATE SET ...
upsert_row(st, r) ==
    LET k == r.id.v
    IN  IF k \in DOMAIN st
        THEN [st EXCEPT ![k] = [@ EXCEPT !.title_romaji = r.title_romaji,
                                         !.title_english = r.title_english,
                                         !.description = r.description,
                                         !.genres = r.genres,
                                         !.tags = r.tags,
                                         !.average_score = r.average_score,
                                         !.studios = r.studios]]
        ELSE [i \in DOMAIN st \cup {k} |-> IF i = k THEN r ELSE st[i]]

\* executemany over the first n rows of rs
RECURSIVE executemany(_, _, _)
executemany(st, rs, n) ==
    IF n = 0 THEN st ELSE upsert_row(executemany(st, rs, n - 1), rs[n])

\* DROP TABLE and CREATE TABLE: the table is empty afterwards
ensure_schema_recreates(exists, st) == EmptyStore

\* CREATE TABLE IF NOT EXISTS anime: the rows of the table afterwards
ensure_schema(exists, st) == IF exists THEN st ELSE EmptyStore

\* ------------------------------------------------------------- the inputs
PagesArgs == -1..MaxPagesArg         \* values of --pages
SleepArg == 5                        \* --sleep, in tenths of a second

ItemA == JObj([id |-> JInt(1),
               title |-> JObj([romaji |-> JStr(<<"X">>), english |-> JStr(<<"Y">>)]),
               description |-> JStr(<<"a", "<", "b", "r", ">", "b">>),
               genres |-> JList(<<JStr(<<"G">>)>>),
               tags |-> JList(<<JObj([name |-> JStr(<<"A">>)]), Null, JObj([name |-> Null])>>),
               averageScore |-> JInt(80),
               studios |-> JObj([nodes |-> JList(<<JObj([name |-> JStr(<<"S">>)])>>)])])
ItemB == JObj([id |-> JInt(1),
               title |-> JObj([romaji |-> JStr(<<"X">>)]),
               tags |-> Null,
               studios |-> Null])
ItemC == JObj([id |-> JInt(2), title |-> Null, description |-> Null, genres |-> Null])
ItemNoId == JObj([title |-> JObj([romaji |-> JStr(<<"Z">>)])])
ItemNullId == JObj([id |-> Null])

\* what a media list may hold; Null is a null entry of the list
RawItems == {ItemA, ItemB, ItemC, ItemNoId, ItemNullId, Null}

MediaLists == UNION {[1..n -> RawItems] : n \in 0..MaxItems}

\* pageInfo as the service may send it
PageInfos == {JObj([hasNextPage |-> JBool(TRUE)]),
              JObj([hasNextPage |-> JBool(FALSE)]),
              JObj([currentPage |-> JInt(1)]),
              Null}

\* media lists that go with the less usual page envelopes
ShortLists == {ml \in MediaLists : Len(ml) <= 1}

\* data["data"]["Page"]: with or without its keys, or null
Payloads ==
    {JObj([pageInfo |-> JObj([hasNextPage |-> JBool(b)]), media |-> JList(ml)]) :
        b \in BOOLEAN, ml \in MediaLists}
    \cup {JObj([pageInfo |-> pi, media |-> JList(ml)]) : pi \in PageInfos, ml \in ShortLists}
    \cup {JObj([media |-> JList(ml)]) : ml \in ShortLists}
    \cup {JObj([pageInfo |-> pi]) : pi \in PageInfos}
    \cup {JObj([pageInfo |-> pi, media |-> Null]) : pi \in PageInfos}
    \cup {Null}

\* the status codes raise_for_status answers with HTTPError
HttpStatuses == {429, 500}

\* what fetch_page raises
HTTPError(status) == [kind |-> "HTTPError", status |-> status]
RequestFailed == [kind |-> "ConnectionError", status |-> 0]   \* requests.post: timeout, reset
ServiceErrors == [kind |-> "RuntimeError", status |-> 0]      \* "errors" in data
BadBody == [kind |-> "KeyError", status |-> 0]                \* resp.json(), data["data"]["Page"]
FetchFailures == {HTTPError(c) : c \in HttpStatuses} \cup {RequestFailed, ServiceErrors, BadBody}

\* -------------------------------------------------------------- the state
VARIABLES
    pc,             \* position of main(): the Driver's state
    pages,          \* args.pages
    conn,           \* the sqlite3 connection: "none", "open" or "closed"
    connects,       \* sqlite3.connect calls of this run
    schema,         \* whether table anime exists in the database file
    store,          \* committed rows of table anime: id -> row
    pending,        \* the table as the connection sees it (uncommitted writes included)
    total_inserted,
    has_next,
    page,
    payload,        \* what fetch_page returned
    exc,            \* the exception in flight, or NoExc
    rows,           \* the mapped batch
    pbar,           \* pages counted by the progress bar
    lastSleep,      \* the last time.sleep: its kind and length in tenths of a second
    out,            \* the last line written
    exitcode,       \* process exit status, -1 while running
    calls,          \* fetch_page calls for the current page
    fails,          \* HTTP errors answered for the current page
    okPages,        \* pages fetch_page returned, in order
    upserts,        \* upsert_batch calls for the current page
    idCount,        \* items with an identifier on the pages completed by this run
    written,        \* id -> the record most recently handed to a committed upsert
    runIds,         \* the identifiers handed to the committed upserts of this run
    repeated,       \* whether an identifier came twice in the batches committed by this run
    fstep,          \* calls made when one function is run on its own, 0 in main()
    desc,           \* the text clean_description is called with
    cleaned,        \* what clean_description(desc) returned
    recleaned,      \* what clean_description(cleaned) returned
    medium,         \* the item the body of the mapping loop is run with
    mapped          \* its row, or what it raised

vars == <<pc, pages, conn, connects, schema, store, pending, total_inserted,
          has_next, page, payload, exc, rows, pbar, lastSleep, out, exitcode,
          calls, fails, okPages, upserts, idCount, written, runIds, repeated,
          fstep, desc, cleaned, recleaned, medium, mapped>>

\* the variables of a function that is run on its own
fvars == <<fstep, desc, cleaned, recleaned, medium, mapped>>

NoExc == [kind |-> "none"]
NoSleep == [kind |-> "none", tenths |-> 0]
NoOut == [kind |-> "none"]

\* ------------------------------------------------------------ the actions
Init ==
    /\ pc = "Start"
    /\ pages \in PagesArgs
    /\ conn = "none"
    /\ connects = 0
    /\ schema = FALSE
    /\ store = EmptyStore
    /\ pending = EmptyStore
    /\ total_inserted = 0
    /\ has_next = JBool(TRUE)
    /\ page = 1
    /\ payload = Null
    /\ exc = NoExc
    /\ rows = <<>>
    /\ pbar = 0
    /\ lastSleep = NoSleep
    /\ out = NoOut
    /\ exitcode = -1
    /\ calls = 0
    /\ fails = 0
    /\ okPages = <<>>
    /\ upserts = 0
    /\ idCount = 0
    /\ written = EmptyStore
    /\ runIds = {}
    /\ repeated = FALSE
    /\ fstep = 0
    /\ desc = <<>>
    /\ cleaned = <<>>
    /\ recleaned = <<>>
    /\ medium = Null
    /\ mapped = Null

\* a loop test that is off by one page
loop_runs_one_more(h, p) == Truthy(h) /\ p <= pages + 1

\* the test of the while loop, line 116
loop_runs(h, p) == Truthy(h) /\ p <= pages

\* line 116 and, when the loop ends, line 156 and the return of main():
\* `line` is what was written last if the loop goes on
loop_test(h, p, tot, line) ==
    /\ pc' = IF loop_runs(h, p) THEN "Fetching" ELSE "Done"
    /\ out' = IF loop_runs(h, p) THEN line ELSE [kind |-> "summary", total |-> tot]
    /\ exitcode' = IF loop_runs(h, p) THEN exitcode ELSE 0

\* an exception nothing catches leaves main(): the traceback is written, exit status 1;
\* the page in hand (payload, rows) goes with the frame of main()
uncaught(e) ==
    /\ pc' = "Aborted"
    /\ out' = [kind |-> "traceback", error |-> e.kind]
    /\ exitcode' = 1
    /\ payload' = Null
    /\ rows' = <<>>

\* lines 106-116: connect, ensure_schema, the counters, then the first loop test
main_start ==
    /\ pc = "Start"
    /\ conn' = "open"
    /\ connects' = connects + 1
    /\ schema' = TRUE
    /\ store' = ensure_schema(schema, store)
    /\ pending' = store'
    /\ total_inserted' = 0
    /\ has_next' = JBool(TRUE)
    /\ page' = 1
    /\ loop_test(JBool(TRUE), 1, 0, out)
    /\ UNCHANGED <<pages, payload, exc, rows, pbar, lastSleep, calls, fails,
                   okPages, upserts, idCount, written>>
    /\ UNCHANGED <<runIds, repeated>>
    /\ UNCHANGED fvars

\* fetch_page returns data["data"]["Page"]
fetch_page_returns ==
    /\ pc = "Fetching"
    /\ \E pl \in Payloads : payload' = pl
    /\ calls' = calls + 1
    /\ okPages' = Append(okPages, page)
    /\ pc' = "Mapping"
    /\ UNCHANGED <<pages, conn, connects, schema, store, pending, total_inserted,
                   has_next, page, exc, rows, pbar, lastSleep, out, exitcode, fails,
                   upserts, idCount, written>>
    /\ UNCHANGED <<runIds, repeated>>
    /\ UNCHANGED fvars

\* fetch_page raises: requests.post, raise_for_status, resp.json, the errors test
fetch_page_raises ==
    /\ pc = "Fetching"
    /\ \E e \in FetchFailures :
          /\ e.kind = "HTTPError" => fails < MaxRetries
          /\ exc' = e
    /\ calls' = calls + 1
    /\ pc' = "Raised"
    /\ UNCHANGED <<pages, conn, connects, schema, store, pending, total_inserted,
                   has_next, page, payload, rows, pbar, lastSleep, out, exitcode, fails,
                   okPages, upserts, idCount, written>>
    /\ UNCHANGED <<runIds, repeated>>
    /\ UNCHANGED fvars

\* line 121
backoff(status) == IF status = 429 THEN 5 ELSE 3

\* a handler that falls through to the page increment
retried_page_skips(p) == p + 1

\* line 124: `continue` skips lines 126-155, so the page number stays
retried_page(p) == p

\* an except clause that catches every exception
caught_any(e) == TRUE

\* which exceptions the except clause of line 119 catches
caught(e) == e.kind = "HTTPError"

\* lines 119-124: the handler of requests.HTTPError, then `continue`
main_except_HTTPError ==
    /\ pc = "Raised"
    /\ caught(exc)
    /\ lastSleep' = [kind |-> "backoff", tenths |-> 10 * backoff(exc.status)]
    /\ fails' = fails + 1
    /\ exc' = NoExc
    /\ page' = retried_page(page)
    /\ loop_test(has_next, page', total_inserted,
                 [kind |-> "retry", status |-> exc.status, page |-> page,
                  wait |-> backoff(exc.status)])
    /\ UNCHANGED <<pages, conn, connects, schema, store, pending, total_inserted,
                   has_next, payload, rows, pbar, calls, okPages, upserts, idCount,
                   written>>
    /\ UNCHANGED <<runIds, repeated>>
    /\ UNCHANGED fvars

\* any other exception of fetch_page passes the try statement and leaves main()
main_propagates ==
    /\ pc = "Raised"
    /\ ~caught(exc)
    /\ uncaught(exc)
    /\ UNCHANGED <<pages, conn, connects, schema, store, pending, total_inserted,
                   has_next, page, exc, pbar, lastSleep, calls, fails,
                   okPages, upserts, idCount, written>>
    /\ UNCHANGED <<runIds, repeated>>
    /\ UNCHANGED fvars

\* lines 126-146: the batch of the page
main_maps ==
    /\ pc = "Mapping"
    /\ ~mapping_raises(payload)
    /\ rows' = map_items(media_of(payload).v)
    /\ pc' = "Persisting"
    /\ UNCHANGED <<pages, conn, connects, schema, store, pending, total_inserted,
                   has_next, page, payload, exc, pbar, lastSleep, out, exitcode, calls,
                   fails, okPages, upserts, idCount, written>>
    /\ UNCHANGED <<runIds, repeated>>
    /\ UNCHANGED fvars

\* lines 126-146 raise (payload or an item is null, media is null): nothing catches it
main_map_raises ==
    /\ pc = "Mapping"
    /\ mapping_raises(payload)
    /\ exc' = [kind |-> IF HasGet(payload) /\ media_of(payload).t # "list"
                        THEN "TypeError" ELSE "AttributeError",
               status |-> 0]
    /\ uncaught(exc')
    /\ UNCHANGED <<pages, conn, connects, schema, store, pending, total_inserted,
                   has_next, page, pbar, lastSleep, calls, fails, okPages,
                   upserts, idCount, written>>
    /\ UNCHANGED <<runIds, repeated>>
    /\ UNCHANGED fvars

\* line 148 with an empty batch: upsert_batch is not called
main_skips_empty ==
    /\ pc = "Persisting"
    /\ rows = <<>>
    /\ pc' = "Advancing"
    /\ UNCHANGED <<pages, conn, connects, schema, store, pending, total_inserted,
                   has_next, page, payload, exc, rows, pbar, lastSleep, out, exitcode,
                   calls, fails, okPages, upserts, idCount, written>>
    /\ UNCHANGED <<runIds, repeated>>
    /\ UNCHANGED fvars

\* upsert_batch, lines 85-98, when nothing fails: the table after executemany and commit
upsert_batch(st, rs) == executemany(st, rs, Len(rs))

\* a commit after every record: what was written before the failure stays committed
committed_per_record(st, rs, k) == executemany(st, rs, k - 1)

\* the committed table when upsert_batch raised while writing record k of rs
\* (k = Len(rs) + 1: in commit): line 98 did not complete, nothing of the batch is committed
committed_on_failure(st, rs, k) == st

\* the record of rs[1..n] that comes last for identifier k, or old if there is none
RECURSIVE last_for(_, _, _, _)
last_for(rs, n, k, old) ==
    IF n = 0 THEN old
    ELSE IF rs[n].id.v = k THEN rs[n] ELSE last_for(rs, n - 1, k, old)

\* bookkeeping of the records handed to upsert_batch: per identifier, the last one
last_write(w, rs) ==
    [k \in DOMAIN w \cup {rs[i].id.v : i \in 1..Len(rs)} |->
        last_for(rs, Len(rs), k, IF k \in DOMAIN w THEN w[k] ELSE Null)]

\* a total that counts the batches
counted_batches(tot, rs) == tot + 1

\* line 150
counted(tot, rs) == tot + Len(rs)

\* lines 148-150 with a batch that upsert_batch commits
main_persists ==
    /\ pc = "Persisting"
    /\ rows # <<>>
    /\ store' = upsert_batch(pending, rows)
    /\ pending' = store'
    /\ total_inserted' = counted(total_inserted, rows)
    /\ upserts' = upserts + 1
    /\ written' = last_write(written, rows)
    /\ runIds' = runIds \cup {rows[i].id.v : i \in 1..Len(rows)}
    /\ repeated' = (\/ repeated
                    \/ \E i \in 1..Len(rows) : rows[i].id.v \in runIds
                    \/ \E i, j \in 1..Len(rows) : i # j /\ rows[i].id = rows[j].id)
    /\ pc' = "Advancing"
    /\ UNCHANGED <<pages, conn, connects, schema, has_next, page, payload, exc, rows,
                   pbar, lastSleep, out, exitcode, calls, fails, okPages, idCount>>
    /\ UNCHANGED fvars

\* line 149 raises sqlite3.Error while writing record k, or in commit: nothing catches it
main_persist_raises ==
    /\ pc = "Persisting"
    /\ rows # <<>>
    /\ \E k \in 1..(Len(rows) + 1) :
          /\ pending' = executemany(pending, rows, k - 1)
          /\ store' = committed_on_failure(store, rows, k)
    /\ upserts' = upserts + 1
    /\ exc' = [kind |-> "sqlite3.Error", status |-> 0]
    /\ uncaught(exc')
    /\ UNCHANGED <<pages, conn, connects, schema, total_inserted, has_next, page,
                   pbar, lastSleep, calls, fails, okPages, idCount, written>>
    /\ UNCHANGED <<runIds, repeated>>
    /\ UNCHANGED fvars

\* how many items of a media list carry an identifier
count_ids(media) ==
    Cardinality({i \in 1..Len(media) : HasGet(media[i]) /\ Get(media[i], "id") # Null})

\* a flag that defaults to True when the envelope carries none
next_flag_default_true(p) ==
    GetOr(Or(Get(p, "pageInfo"), EmptyObj), "hasNextPage", JBool(TRUE))

\* line 152
next_flag(p) == GetOr(Or(Get(p, "pageInfo"), EmptyObj), "hasNextPage", JBool(FALSE))

\* an increment that passes over a page
next_page_skips(p) == p + 2

\* line 153
next_page(p) == p + 1

\* lines 152-155, then the loop test; the page in hand is dropped here, since nothing
\* reads payload or rows again before lines 118 and 127 assign them
main_advances ==
    /\ pc = "Advancing"
    /\ has_next' = next_flag(payload)
    /\ payload' = Null
    /\ rows' = <<>>
    /\ page' = next_page(page)
    /\ pbar' = pbar + 1
    /\ lastSleep' = [kind |-> "pacing", tenths |-> SleepArg]
    /\ calls' = 0
    /\ fails' = 0
    /\ upserts' = 0
    /\ idCount' = idCount + count_ids(media_of(payload).v)
    /\ loop_test(has_next', page', total_inserted, out)
    /\ UNCHANGED <<pages, conn, connects, schema, store, pending, total_inserted,
                   exc, okPages, written>>
    /\ UNCHANGED <<runIds, repeated>>
    /\ UNCHANGED fvars

\* the process has ended and the program is started again on the same database file:
\* writes that were not committed are gone with the connection
restart ==
    /\ pc \in {"Done", "Aborted"}
    /\ pc' = "Start"
    /\ pages' \in PagesArgs
    /\ conn' = "none"
    /\ connects' = 0
    /\ pending' = store
    /\ total_inserted' = 0
    /\ has_next' = JBool(TRUE)
    /\ page' = 1
    /\ payload' = Null
    /\ exc' = NoExc
    /\ rows' = <<>>
    /\ pbar' = 0
    /\ lastSleep' = NoSleep
    /\ out' = NoOut
    /\ exitcode' = -1
    /\ calls' = 0
    /\ fails' = 0
    /\ okPages' = <<>>
    /\ upserts' = 0
    /\ idCount' = 0
    /\ runIds' = {}
    /\ repeated' = FALSE
    /\ UNCHANGED <<schema, store, written>>
    /\ UNCHANGED fvars

Next ==
    \/ main_start
    \/ fetch_page_returns
    \/ fetch_page_raises
    \/ main_except_HTTPError
    \/ main_propagates
    \/ main_maps
    \/ main_map_raises
    \/ main_skips_empty
    \/ main_persists
    \/ main_persist_raises
    \/ main_advances
    \/ restart

Spec == Init /\ [][Next]_vars

\* ------------------------------------------ clean_description on its own
\* the variables of main()
mainvars == <<pc, pages, conn, connects, schema, store, pending, total_inserted,
              has_next, page, payload, exc, rows, pbar, lastSleep, out, exitcode,
              calls, fails, okPages, upserts, idCount, written, runIds, repeated>>

\* main() is not run
MainOff ==
    /\ pc = "Start"
    /\ pages = 0
    /\ conn = "none"
    /\ connects = 0
    /\ schema = FALSE
    /\ store = EmptyStore
    /\ pending = EmptyStore
    /\ total_inserted = 0
    /\ has_next = JBool(TRUE)
    /\ page = 1
    /\ payload = Null
    /\ exc = NoExc
    /\ rows = <<>>
    /\ pbar = 0
    /\ lastSleep = NoSleep
    /\ out = NoOut
    /\ exitcode = -1
    /\ calls = 0
    /\ fails = 0
    /\ okPages = <<>>
    /\ upserts = 0
    /\ idCount = 0
    /\ written = EmptyStore
    /\ runIds = {}
    /\ repeated = FALSE

MaxPieces == 3

\* what a description is put together from: text, whitespace, a paragraph break,
\* angle brackets, a line-break tag and the five entities (and the tail of one)
Pieces == {<<"a">>, <<"b">>, <<" ">>, <<"\t">>, <<"\n">>, <<"\n", "\n", "\n">>,
           <<"<">>, <<">">>, <<"<", "B", "R", " ", "/", ">">>,
           Amp, <<"a", "m", "p", ";">>, Lt, Gt, Quot, Apos}

RECURSIVE Texts(_)
\* the texts of at most n pieces
Texts(n) ==
    IF n = 0 THEN {<<>>}
    ELSE LET T == Texts(n - 1) IN T \cup {t \o q : t \in T, q \in Pieces}

Descriptions == Texts(MaxPieces)

CleanInit ==
    /\ MainOff
    /\ fstep = 0
    /\ desc \in Descriptions
    /\ cleaned = <<>>
    /\ recleaned = <<>>
    /\ medium = Null
    /\ mapped = Null

\* clean_description(desc)
clean_once ==
    /\ fstep = 0
    /\ cleaned' = clean_description(desc)
    /\ fstep' = 1
    /\ UNCHANGED <<desc, recleaned, medium, mapped>>
    /\ UNCHANGED mainvars

\* clean_description called with what it returned
clean_again ==
    /\ fstep = 1
    /\ recleaned' = clean_description(cleaned)
    /\ fstep' = 2
    /\ UNCHANGED <<desc, cleaned, medium, mapped>>
    /\ UNCHANGED mainvars

CleanNext ==
    \/ clean_once
    \/ clean_again

CleanSpec == CleanInit /\ [][CleanNext]_vars

\* --------------------------------- the body of the mapping loop on its own
MaxTags == 3
MaxStudios == 1

\* an element of tags or of studios.nodes: null, named, with a null, no or an empty name
Elems == {Null,
          JObj([name |-> JStr(<<"A">>)]),
          JObj([name |-> JStr(<<"B">>)]),
          JObj([name |-> Null]),
          EmptyObj,
          JObj([name |-> JStr(<<>>)])}

ElemLists(max) == UNION {[1..n -> Elems] : n \in 0..max}

\* the value of "tags": null or a list
TagValues == {Null} \cup {JList(l) : l \in ElemLists(MaxTags)}

\* the value of "studios": null, an object without nodes, with null nodes or a list
StudioValues == {Null, EmptyObj, JObj([nodes |-> Null])}
                \cup {JObj([nodes |-> JList(l)]) : l \in ElemLists(MaxStudios)}

\* items with an identifier, with and without the keys tags and studios
Media ==
    {JObj([id |-> JInt(1)])}
    \cup {JObj([id |-> JInt(1), tags |-> tg]) : tg \in TagValues}
    \cup {JObj([id |-> JInt(1), studios |-> sv]) : sv \in StudioValues}
    \cup {JObj([id |-> JInt(1), tags |-> tg, studios |-> sv]) :
            tg \in TagValues, sv \in StudioValues}

MapInit ==
    /\ MainOff
    /\ fstep = 0
    /\ desc = <<>>
    /\ cleaned = <<>>
    /\ recleaned = <<>>
    /\ medium \in Media
    /\ mapped = Null

\* lines 129-143 for the item medium
map_one ==
    /\ fstep = 0
    /\ mapped' = IF map_raises(medium) THEN [raised |-> TRUE] ELSE map_row(medium)
    /\ fstep' = 1
    /\ UNCHANGED <<desc, cleaned, recleaned, medium>>
    /\ UNCHANGED mainvars

MapNext == map_one

MapSpec == MapInit /\ [][MapNext]_vars

\* ------------------------------------------------------------- the claims
\* the error classes of the specification, as fetch_page and upsert_batch raise them
TransportError(e) == e.kind \in {"HTTPError", "ConnectionError"}
ProtocolError(e) == e.kind = "RuntimeError"
StorageError(e) == e.kind = "sqlite3.Error"

\* C1: every TransportError raised while fetching page p, with a status code or
\* without one (timeout, connection reset), sends the Driver back to Fetching(p)
\* for the same page; it never moves the Driver to Aborted or Done.
C1_TransportErrorRetries ==
    [][pc = "Raised" /\ TransportError(exc) => pc' = "Fetching" /\ page' = page]_vars

\* C2: a ProtocolError raised by the fetch of page p is not retried: the run ends in
\* Aborted with no further fetch or upsert, the store holds exactly the records
\* committed for the pages before p, and nothing was upserted when p = 1.
C2_ProtocolErrorAborts ==
    /\ [][pc = "Raised" /\ ProtocolError(exc) =>
            /\ pc' = "Aborted"
            /\ UNCHANGED <<store, pending, calls, upserts, total_inserted, page>>]_vars
    /\ [][pc = "Aborted" /\ pc' = "Aborted" => UNCHANGED <<store, calls, upserts>>]_vars
    /\ [](pc = "Aborted" /\ ProtocolError(exc) =>
            /\ store = written
            /\ pending = store
            /\ upserts = 0
            /\ Len(okPages) = page - 1
            /\ total_inserted = idCount
            /\ (page = 1 => total_inserted = 0))

\* a run that committed page 1 and aborted on the ProtocolError of page 2
C2_Witness ==
    /\ pc = "Aborted"
    /\ ProtocolError(exc)
    /\ page = 2
    /\ total_inserted = 2
    /\ DOMAIN store = {1, 2}

\* C3: upsert_batch is atomic per batch: when writing a record of the batch fails with
\* a StorageError, the committed store is what it was before the call, the run aborts
\* without calling upsert_batch again, and the records committed for earlier pages stay.
C3_BatchAtomic ==
    /\ [][pc = "Persisting" /\ pc' = "Aborted" =>
            /\ StorageError(exc')
            /\ store' = store
            /\ upserts' = 1
            /\ UNCHANGED <<total_inserted, written>>]_vars
    /\ [](pc = "Aborted" /\ StorageError(exc) => store = written)

\* the second page's batch failed after its first record was written: page 1 is in
\* the committed store, the record of page 2 only in the connection's open transaction
C3_Witness ==
    /\ pc = "Aborted"
    /\ StorageError(exc)
    /\ page = 2
    /\ DOMAIN store = {1}
    /\ DOMAIN pending = {1, 2}

\* C4: after any sequence of upsert_batch calls, in one run or across runs, the store
\* holds exactly one row per identifier ever upserted, and each row equals, field by
\* field, the record most recently upserted for its identifier.
C4_LastWriteWins ==
    /\ DOMAIN store = DOMAIN written
    /\ \A k \in DOMAIN store :
          /\ store[k].id = JInt(k)
          /\ store[k].title_romaji = written[k].title_romaji
          /\ store[k].title_english = written[k].title_english
          /\ store[k].description = written[k].description
          /\ store[k].genres = written[k].genres
          /\ store[k].tags = written[k].tags
          /\ store[k].average_score = written[k].average_score
          /\ store[k].studios = written[k].studios

\* identifier 1 came twice in one batch, first as ItemA and then as ItemB: the row
\* is the record of ItemB, whose english title and score are null
C4_Witness ==
    /\ pc = "Advancing"
    /\ rows = <<map_row(ItemA), map_row(ItemB)>>
    /\ store[1] = map_row(ItemB)
    /\ store[1].title_english = Null

\* the larger of n and 0
AtLeastZero(n) == IF n > 0 THEN n ELSE 0

\* C5: with page budget N the Driver fetches at most N pages successfully, these are
\* pages 1, 2, ..., k in this order, a run whose pages all report hasNextPage = true
\* ends in Done after exactly N of them, and for N <= 0 no fetch is issued and the
\* run ends in Done with total 0.
C5_PageBudget ==
    /\ Len(okPages) <= AtLeastZero(pages)
    /\ \A i \in 1..Len(okPages) : okPages[i] = i
    /\ pc = "Done" /\ has_next = JBool(TRUE) => Len(okPages) = AtLeastZero(pages)
    /\ pages <= 0 /\ pc # "Start" =>
          /\ pc = "Done"
          /\ calls = 0
          /\ okPages = <<>>
          /\ total_inserted = 0
          /\ out = [kind |-> "summary", total |-> 0]

\* budget 2, both pages reported a next page: Done after exactly two fetches
C5_Witness ==
    /\ pc = "Done"
    /\ pages = 2
    /\ has_next = JBool(TRUE)
    /\ okPages = <<1, 2>>

\* the page envelope says that a next page exists
ReportsNext(p) ==
    /\ "pageInfo" \in DOMAIN p.v
    /\ p.v["pageInfo"].t = "obj"
    /\ "hasNextPage" \in DOMAIN p.v["pageInfo"].v
    /\ p.v["pageInfo"].v["hasNextPage"] = JBool(TRUE)

\* C6: once a fetched page p that was mapped and persisted reports a continuation
\* flag that is false, or carries no flag or no page metadata, the Driver fetches no
\* page after p and ends in Done, and the total it reports is the number of records
\* mapped and persisted from pages 1..p.
C6_StopsOnLastPage ==
    /\ [][pc = "Advancing" /\ ~ReportsNext(payload) =>
            /\ pc' = "Done"
            /\ okPages' = okPages
            /\ out' = [kind |-> "summary", total |-> idCount']
            /\ total_inserted' = idCount']_vars
    /\ [][pc = "Done" /\ pc' = "Done" => UNCHANGED <<calls, okPages, store>>]_vars
    /\ [](has_next # JBool(TRUE) =>
            /\ pc = "Done"
            /\ calls = 0
            /\ Len(okPages) = page - 1)

\* budget 2, page 1 brought two records and no next page: Done after one fetch
C6_Witness ==
    /\ pc = "Done"
    /\ pages = 2
    /\ okPages = <<1>>
    /\ has_next = JBool(FALSE)
    /\ out = [kind |-> "summary", total |-> 2]

\* C7: a failed fetch attempt of page p changes neither the page number, the running
\* total, the progress count nor the store; so after k transport failures and a
\* success page p was fetched k+1 times, its batch was upserted once, no page was
\* skipped and the store has one row per identifier.
C7_FailedAttemptFrame ==
    /\ [][(pc = "Fetching" /\ pc' = "Raised") \/ pc = "Raised" =>
            UNCHANGED <<page, total_inserted, pbar, store, written, has_next, okPages,
                        upserts>>]_vars
    /\ [](pc \in {"Mapping", "Persisting", "Advancing"} =>
            /\ calls = fails + 1
            /\ okPages[Len(okPages)] = page
            /\ pbar = page - 1)
    /\ [](pc = "Advancing" => upserts = IF rows = <<>> THEN 0 ELSE 1)
    /\ [](\A i \in 1..Len(okPages) : okPages[i] = i)
    /\ [](\A k \in DOMAIN store : store[k].id = JInt(k))

\* page 2 failed twice and then succeeded: three fetches, one upsert
C7_Witness ==
    /\ pc = "Advancing"
    /\ page = 2
    /\ fails = 2
    /\ calls = 3
    /\ upserts = 1
    /\ okPages = <<1, 2>>

\* the items of a media list that carry an identifier, in order
ItemsWithId(media) == SelectSeq(media, LAMBDA m : Get(m, "id") # Null)

\* C8: on every page that is mapped, an item without identifier is not written to the
\* store and not counted in the running total, every item with an identifier is
\* mapped and persisted in the page's batch, and a page whose batch is empty causes
\* no Store call while the Driver still advances.
C8_ItemsWithoutIdDropped ==
    /\ [](pc \in {"Persisting", "Advancing"} =>
            LET withId == ItemsWithId(media_of(payload).v)
            IN  rows = [i \in 1..Len(withId) |-> map_row(withId[i])])
    /\ [][pc = "Persisting" /\ pc' = "Advancing" =>
            LET withId == ItemsWithId(media_of(payload).v)
                ids == {withId[i].v["id"].v : i \in 1..Len(withId)}
            IN  /\ total_inserted' = total_inserted + Len(withId)
                /\ DOMAIN store' = DOMAIN store \cup ids
                /\ \A i \in 1..Len(withId) :
                      \E j \in i..Len(withId) :
                          /\ withId[j].v["id"] = withId[i].v["id"]
                          /\ store'[withId[i].v["id"].v] = map_row(withId[j])]_vars
    /\ [][pc = "Persisting" /\ rows = <<>> =>
            /\ pc' = "Advancing"
            /\ upserts' = 0
            /\ UNCHANGED <<store, pending, total_inserted>>]_vars

\* a page of one item without identifier and ItemA: only ItemA is stored and counted
C8_Witness ==
    /\ pc = "Advancing"
    /\ media_of(payload).v = <<ItemNoId, ItemA>>
    /\ DOMAIN store = {1}
    /\ store[1] = map_row(ItemA)
    /\ total_inserted = 1

\* C9: the Store connection is acquired exactly once per run and has been released
\* whenever the run is in Done or Aborted.
C9_ConnectionReleased ==
    /\ connects <= 1
    /\ pc \in {"Done", "Aborted"} => connects = 1 /\ conn = "closed"

\* C10: Done and Aborted both report the pages attempted and the records upserted,
\* Aborted reports the triggering error as well, the exit status is non-zero if and
\* only if the run ended in Aborted, and the summary line is written on success.
C10_TerminalReports ==
    /\ pc = "Done" =>
          /\ out = [kind |-> "summary", total |-> total_inserted]
          /\ pbar = Len(okPages)
          /\ exitcode = 0
    /\ pc = "Aborted" =>
          /\ exitcode # 0
          /\ "error" \in DOMAIN out
          /\ out.error = exc.kind
          /\ "total" \in DOMAIN out
          /\ out.total = total_inserted

\* the identifiers of a batch
BatchIds(rs) == {rs[i].id.v : i \in 1..Len(rs)}

\* C11: the pipeline never deletes a persisted record: over every step, ensure_schema
\* and upsert_batch included, and over repeated runs the set of identifiers in the
\* store never shrinks, ensure_schema on an existing table leaves every row as it is,
\* and an upsert leaves every row whose identifier is not in the batch as it is.
C11_NeverDeletes ==
    /\ [][DOMAIN store \subseteq DOMAIN store']_vars
    /\ [][pc = "Start" /\ schema => store' = store]_vars
    /\ [][pc = "Persisting" =>
            \A k \in DOMAIN store : k \notin BatchIds(rows) => store'[k] = store[k]]_vars

\* a later run has passed ensure_schema and the rows of the run before are there
C11_Witness ==
    /\ pc = "Fetching"
    /\ page = 1
    /\ total_inserted = 0
    /\ DOMAIN store = {1, 2}

\* a markup tag: "<", one or more characters other than ">", then ">"
HasTag(s) ==
    \E i \in 1..Len(s) : \E j \in (i + 2)..Len(s) :
        s[i] = "<" /\ s[j] = ">" /\ \A k \in (i + 1)..(j - 1) : s[k] # ">"

\* one of the five entities
HasEntity(s) ==
    \E i \in 1..Len(s) : \E e \in {Amp, Lt, Gt, Quot, Apos} : StartsAt(s, i, e)

\* C12: clean_description is idempotent: called with its own result it returns that
\* result again, for every text, "&amp;amp;" and "&lt;b&gt;" included.
C12_Idempotent == fstep = 2 => recleaned = cleaned

\* C12, amended: clean_description called with its own result returns that result
\* again whenever that result holds no markup tag and none of the five entities.
C12_IdempotentOnPlainResult ==
    fstep = 2 /\ ~HasTag(cleaned) /\ ~HasEntity(cleaned) => recleaned = cleaned

\* a text with an entity was cleaned to a plain result and that was cleaned again
C12_Witness ==
    /\ fstep = 2
    /\ HasEntity(desc)
    /\ cleaned # <<>>
    /\ ~HasTag(cleaned)
    /\ ~HasEntity(cleaned)

\* s without its leading and trailing whitespace
Trimmed(s) ==
    LET I == {i \in 1..Len(s) : ~IsSpace(s[i])}
    IN  IF I = {} THEN <<>>
        ELSE SubSeq(s, CHOOSE i \in I : \A j \in I : i <= j,
                       CHOOSE i \in I : \A j \in I : i >= j)

\* index i of s holds whitespace that a newline follows within the same whitespace run
BeforeNl(s, i) ==
    /\ IsSpace(s[i])
    /\ \E j \in (i + 1)..Len(s) : s[j] = "\n" /\ \A k \in i..j : IsSpace(s[k])

\* s without the whitespace that a newline follows within the same whitespace run
Squeezed(s) ==
    LET idx == SelectSeq([i \in 1..Len(s) |-> i], LAMBDA i : ~BeforeNl(s, i))
    IN  [n \in 1..Len(idx) |-> s[idx[n]]]

HasBreak(s) ==
    \E i \in 2..Len(s) : \E j \in (i + 2)..(Len(s) - 1) :
        /\ \A k \in i..j : s[k] = "\n"
        /\ ~IsSpace(s[i - 1])
        /\ ~IsSpace(s[j + 1])

\* s holds exactly two newlines between two characters that are no whitespace
HasTwoNewlines(s) ==
    \E i \in 2..(Len(s) - 2) :
        s[i] = "\n" /\ s[i + 1] = "\n" /\ ~IsSpace(s[i - 1]) /\ ~IsSpace(s[i + 2])

\* C16: a run of three or more newlines of the text as it is after tag removal comes
\* out of clean_description as exactly two newlines: a paragraph break inside the text
\* is never reduced to a single newline.
C16_ParagraphBreakKept ==
    fstep >= 1 /\ HasBreak(sub_tags(sub_br(desc, 1), 1)) => HasTwoNewlines(cleaned)

\* the value of key k of item m, the empty list when it is absent or null
SourceList(v) == IF v = Null THEN <<>> ELSE v.v

\* the tags of item m and the nodes of its studios, as the service sent them
SourceTags(m) == SourceList(Get(m, "tags"))
SourceStudios(m) ==
    IF Get(m, "studios") = Null THEN <<>> ELSE SourceList(Get(Get(m, "studios"), "nodes"))

\* element e is not null and carries a name that is not null
Named(e) == e # Null /\ "name" \in DOMAIN e.v /\ e.v["name"] # Null

\* element e is not null and carries a name that is neither null nor the empty string
NamedNonEmpty(e) == Named(e) /\ e.v["name"].v # <<>>

\* the names of the elements of l that satisfy Keep, in order
NamesWhere(l, Keep(_)) ==
    LET kept == SelectSeq(l, Keep) IN JList([i \in 1..Len(kept) |-> kept[i].v["name"]])

\* C17: the tags of a mapped row are exactly the names, in order, of the tag elements
\* that are not null and carry a non-null name, its studios the same of the nodes of
\* studios; each is the empty list when its source is absent, null or empty.
C17_NamesOfNonNull ==
    fstep = 1 =>
        /\ mapped.tags = json_dumps(NamesWhere(SourceTags(medium), Named))
        /\ mapped.studios = json_dumps(NamesWhere(SourceStudios(medium), Named))

\* C17, amended: the tags of a mapped row are exactly the names, in order, of the tag
\* elements that are not null and carry a name that is neither null nor the empty
\* string, its studios the same of the nodes of studios; each is the empty list when
\* its source is absent, null or empty.
C17_NamesOfNonEmpty ==
    fstep = 1 =>
        /\ mapped.tags = json_dumps(NamesWhere(SourceTags(medium), NamedNonEmpty))
        /\ mapped.studios = json_dumps(NamesWhere(SourceStudios(medium), NamedNonEmpty))

\* the item with tags [{name: A}, null, {name: null}] and studios null was mapped
C17_Witness ==
    /\ fstep = 1
    /\ medium = JObj([id |-> JInt(1),
                      tags |-> JList(<<JObj([name |-> JStr(<<"A">>)]), Null,
                                       JObj([name |-> Null])>>),
                      studios |-> Null])
    /\ mapped.tags = JStr(<<"[", "\"", "A", "\"", "]">>)
    /\ mapped.studios = JStr(<<"[", "]">>)
    /\ mapped.title_english = Null

\* C14: each page is fully processed before the next one is fetched: when the fetch of
\* page p+1 begins, pages 1..p were each fetched with success, in order, every item of
\* them is mapped and counted, their batches are committed (or were empty) and nothing
\* of them is in hand any more; the step that begins the fetch of page p+1 is the
\* advance from page p, taken after its batch was mapped and committed, and whether it
\* goes on to fetch is decided by the hasNextPage flag of page p's own payload.
C14_PageDoneBeforeNext ==
    /\ [](pc = "Fetching" =>
            /\ okPages = [i \in 1..(page - 1) |-> i]
            /\ pbar = page - 1
            /\ total_inserted = idCount
            /\ pending = store
            /\ payload = Null
            /\ rows = <<>>)
    /\ [][pc' = "Fetching" /\ page' # page =>
            /\ pc = "Advancing"
            /\ page' = page + 1
            /\ okPages[Len(okPages)] = page
            /\ rows = map_items(media_of(payload).v)
            /\ upserts = (IF rows = <<>> THEN 0 ELSE 1)
            /\ pending = store
            /\ store' = store]_vars
    /\ [][pc = "Advancing" =>
            (pc' = "Fetching" <=> ReportsNext(payload) /\ page + 1 <= pages)]_vars

\* the fetch of page 2 begins after both items of page 1 were committed
C14_Witness ==
    /\ pc = "Fetching"
    /\ page = 2
    /\ calls = 0
    /\ okPages = <<1>>
    /\ total_inserted = 2
    /\ DOMAIN store = {1, 2}

\* C15: malformed or missing nested data never fails the batch of a page: when a page
\* is fetched whose media is absent or null or holds a null entry, or whose items lack
\* title, tags, studios, genres or description (or hold null there), main() maps the
\* well-formed items, goes on to persist them and raises nothing.
C15_MalformedNeverFails ==
    [][pc = "Mapping" /\ HasGet(payload) =>
          /\ pc' = "Persisting"
          /\ exc' = NoExc
          /\ Len(rows') = count_ids(SourceList(media_of(payload)))]_vars

\* C18: the pacing delay occurs only between a completed page and the fetch of the
\* next page and never after a failed attempt; a failed attempt is followed by exactly
\* one backoff delay, after which the same page is fetched again, and that backoff is
\* strictly longer for status 429 than for any other transport failure.
C18_DelaysInPlace ==
    /\ [][pc = "Advancing" /\ lastSleep'.kind = "pacing" =>
            pc' = "Fetching" /\ page' = page + 1]_vars
    /\ [][pc = "Raised" => lastSleep' = lastSleep \/ lastSleep'.kind = "backoff"]_vars
    /\ [][pc = "Raised" /\ TransportError(exc) =>
            /\ lastSleep'.kind = "backoff"
            /\ fails' = fails + 1
            /\ pc' = "Fetching"
            /\ page' = page
            /\ exc.status # 429 => lastSleep'.tenths < 10 * backoff(429)]_vars

\* C19: a run in which no ProtocolError and no StorageError occurs, and in which every
\* fetch succeeds after finitely many transport failures, ends in Done after at most
\* pages completed pages: a run ends in Aborted only with a ProtocolError, with a
\* StorageError or with a response body that is no answer at all.
C19_EndsInDone ==
    /\ pc = "Done" => pbar <= AtLeastZero(pages)
    /\ pc = "Aborted" => ProtocolError(exc) \/ StorageError(exc) \/ exc = BadBody

\* the items with an identifier on the pages this run has processed, the page in hand
\* included once its batch is committed or found empty
ProcessedIds ==
    idCount + (IF pc = "Advancing" THEN count_ids(media_of(payload).v) ELSE 0)

\* C20: in every reachable state total_inserted is the sum, over the pages processed
\* so far, of the number of items with an identifier; it is never smaller than the
\* number of distinct identifiers this run has written to the store, and equal to it
\* exactly when no identifier came twice among the processed pages.
C20_TotalCountsRows ==
    /\ total_inserted = ProcessedIds
    /\ total_inserted >= Cardinality(runIds)
    /\ total_inserted = Cardinality(runIds) <=> ~repeated
    /\ runIds \subseteq DOMAIN store

\* a run has written identifier 1 twice and identifier 2 once
C20_Witness ==
    /\ pc = "Done"
    /\ total_inserted = 3
    /\ runIds = {1, 2}
    /\ repeated

====
